---- MODULE Spec2Model ----
(***************************************************************************)
(* Model of the character statistics plugin (src/字符统计/plugin.py).        *)
(*                                                                         *)
(* Text is a sequence of units.  A unit >= 0 is the value of one code unit *)
(* of a text string (or one byte of a byte string); a unit < 0 is one      *)
(* markup element of a document: -k is an element with the k-th tracked    *)
(* tag of TAGS_TO_COUNT, and OTHER_TAG is an element with an untracked tag.*)
(* A Python dict is a sequence of [key, n] entries in insertion order, the *)
(* order in which Python iterates it and in which sorted() receives it.    *)
(* A loop is a recursive operator; the value it carries to the next        *)
(* iteration is bound as the element of a one-element set, CHOOSE out \in  *)
(* { rest(v) : v \in { step } } : TRUE, which is rest(step) with step      *)
(* computed once.                                                          *)
(***************************************************************************)
EXTENDS Integers, Sequences, FiniteSets, Bags, TLC

\* ------------------------------------------------------------------ bounds
MaxLen == 3
MaxDocs == 2
MaxDocLen == 1

\* ------------------------------------------------------- program constants
HIGH_FIRST == 55296
HIGH_LAST == 56319
LOW_FIRST == 56320
LOW_LAST == 57343
SURROGATE_SHIFT == 1024
SUPPLEMENTARY_BASE == 65536
HEX_WIDTH == 4
RUN_SUCCESS == 1

\* CJK_EXTENSIONS: block names in table order (romanised) and their ranges.
CJK_EXTENSIONS ==
  << [name |-> "Basic",            ranges |-> << <<19968, 40959>> >>],
     [name |-> "CompatIdeographs", ranges |-> << <<63744, 64217>> >>],
     [name |-> "CompatSupplement", ranges |-> << <<194560, 195101>> >>],
     [name |-> "PrivateUse",       ranges |-> << <<57344, 63743>> >>],
     [name |-> "SupPrivateUseA",   ranges |-> << <<983040, 1048575>> >>],
     [name |-> "SupPrivateUseB",   ranges |-> << <<1048576, 1114111>> >>],
     [name |-> "ExtA",             ranges |-> << <<13312, 19893>> >>],
     [name |-> "ExtB",             ranges |-> << <<131072, 173791>> >>],
     [name |-> "ExtC",             ranges |-> << <<173824, 177978>> >>],
     [name |-> "ExtD",             ranges |-> << <<177984, 178205>> >>],
     [name |-> "ExtE",             ranges |-> << <<178208, 183969>> >>],
     [name |-> "ExtF",             ranges |-> << <<183984, 191456>> >>],
     [name |-> "ExtG",             ranges |-> << <<196608, 201546>> >>],
     [name |-> "ExtH",             ranges |-> << <<201552, 205743>> >>],
     [name |-> "ExtI",             ranges |-> << <<191472, 192093>> >>],
     [name |-> "ExtJ",             ranges |-> << <<205744, 210041>> >> ] >>

ExtNames == { CJK_EXTENSIONS[k].name : k \in 1..Len(CJK_EXTENSIONS) }

TAGS_TO_COUNT == << "b", "i", "u", "img", "table", "ruby" >>

TagNames == { TAGS_TO_COUNT[k] : k \in 1..Len(TAGS_TO_COUNT) }

\* A markup element whose tag is not tracked (a <p>, say).
OTHER_TAG == 0 - (Len(TAGS_TO_COUNT) + 1)

\* ------------------------------------------------------------ host tables
\* str.isspace / isdigit / isalpha of one unit: the host's Unicode tables,
\* over the ranges the model's alphabets touch.  A surrogate is none of them.
IsSpaceUnit(u) ==
  \/ 9 <= u /\ u <= 13
  \/ 28 <= u /\ u <= 32
  \/ u \in {133, 160, 5760, 8232, 8233, 8239, 8287, 12288}
  \/ 8192 <= u /\ u <= 8202

IsDigitUnit(u) ==
  \/ 48 <= u /\ u <= 57
  \/ 65296 <= u /\ u <= 65305

IsAlphaUnit(u) ==
  \/ 65 <= u /\ u <= 90
  \/ 97 <= u /\ u <= 122
  \/ u = 255
  \/ 13312 <= u /\ u <= 19903
  \/ 19968 <= u /\ u <= 40959
  \/ 131072 <= u /\ u <= 173791

\* The str methods hold of a string when it is not empty and every unit passes.
isspace(chstr) == Len(chstr) > 0 /\ \A i \in 1..Len(chstr) : IsSpaceUnit(chstr[i])

isdigit(chstr) == Len(chstr) > 0 /\ \A i \in 1..Len(chstr) : IsDigitUnit(chstr[i])

isalpha(chstr) == Len(chstr) > 0 /\ \A i \in 1..Len(chstr) : IsAlphaUnit(chstr[i])

\* ----------------------------------------------------------- iter_chars
IsHighSurrogate(cp) == HIGH_FIRST <= cp /\ cp <= HIGH_LAST

IsLowSurrogate(low) == LOW_FIRST <= low /\ low <= LOW_LAST

full_cp_no_base(cp, low) ==
  ((cp - HIGH_FIRST) * SURROGATE_SHIFT) + (low - LOW_FIRST)

full_cp(cp, low) ==
  ((cp - HIGH_FIRST) * SURROGATE_SHIFT) + (low - LOW_FIRST) + SUPPLEMENTARY_BASE

\* The generator's loop from index i (0-based, as in the code): the list of
\* (codepoint, string slice) items it yields.
RECURSIVE iter_from(_, _)
iter_from(text, i) ==
  LET n == Len(text) IN
  IF ~(i < n) THEN << >>
  ELSE LET cp == text[i + 1] IN
       IF /\ IsHighSurrogate(cp)
          /\ i + 1 < n
          /\ IsLowSurrogate(text[i + 2])
       THEN << [cp |-> full_cp(cp, text[i + 2]), chstr |-> SubSeq(text, i + 1, i + 2)] >>
            \o iter_from(text, i + 2)
       ELSE << [cp |-> cp, chstr |-> << cp >>] >> \o iter_from(text, i + 1)

iter_chars(text) == iter_from(text, 0)

\* ------------------------------------------------------- CJK block table
InRanges(cp, ranges) ==
  \E r \in 1..Len(ranges) : ranges[r][1] <= cp /\ cp <= ranges[r][2]

is_cjk_codepoint(cp) ==
  \E k \in 1..Len(CJK_EXTENSIONS) : InRanges(cp, CJK_EXTENSIONS[k].ranges)

\* The first matching block's name; "" stands for None (both are falsy).
which_cjk_extension(cp) ==
  IF \E k \in 1..Len(CJK_EXTENSIONS) : InRanges(cp, CJK_EXTENSIONS[k].ranges)
  THEN LET k == CHOOSE j \in 1..Len(CJK_EXTENSIONS) :
                  /\ InRanges(cp, CJK_EXTENSIONS[j].ranges)
                  /\ \A h \in 1..(j - 1) : ~InRanges(cp, CJK_EXTENSIONS[h].ranges)
       IN CJK_EXTENSIONS[k].name
  ELSE ""

\* ------------------------------------------------------------------ dicts
EmptyDict == << >>

HasKey(d, key) == \E i \in 1..Len(d) : d[i].key = key

\* d[key] += c on a defaultdict(int): an existing entry keeps its place, a
\* new key is appended.
DictAdd(d, key, c) ==
  IF HasKey(d, key)
  THEN [i \in 1..Len(d) |-> IF d[i].key = key THEN [d[i] EXCEPT !.n = @ + c] ELSE d[i]]
  ELSE Append(d, [key |-> key, n |-> c])

\* for k, c in src.items(): dst[k] += c
RECURSIVE DictMergeFrom(_, _, _)
DictMergeFrom(dst, src, i) ==
  IF i > Len(src) THEN dst
  ELSE CHOOSE out \in { DictMergeFrom(d, src, i + 1) :
                          d \in { DictAdd(dst, src[i].key, src[i].n) } } : TRUE

DictMerge(dst, src) == DictMergeFrom(dst, src, 1)

RECURSIVE SumFrom(_, _)
SumFrom(d, i) == IF i > Len(d) THEN 0 ELSE d[i].n + SumFrom(d, i + 1)

\* sum(char_counts.values())
SumValues(d) == SumFrom(d, 1)

\* ------------------------------------------------------------ strip_tags
\* A string value: kind "unicode" (a text string) or "bytes" (a Python 2 byte
\* string, or Python 3 bytes), and its units.
Str(kind, s) == [kind |-> kind, s |-> s]

IsTextUnit(u) == u >= 0

\* The text nodes MLStripper collects: the document without its elements.
TextNodes(s) == SelectSeq(s, IsTextUnit)

\* strip_tags: feed() raises on Python 3 for a non-str argument (caught, no
\* text part collected); ''.join of no parts is the host's '' (a byte string
\* on Python 2), otherwise the parts' own type.
strip_tags(html, is_py3) ==
  LET parts == IF is_py3 /\ html.kind = "bytes" THEN << >> ELSE TextNodes(html.s) IN
  IF parts = << >>
  THEN Str(IF is_py3 THEN "unicode" ELSE "bytes", << >>)
  ELSE Str(html.kind, parts)

\* --------------------------------------------------------------- decoding
\* The model's byte strings hold ASCII bytes and bytes that no UTF-8 sequence
\* contains (0xF8..0xFF); multi-byte sequences are not modelled.
IsAsciiByte(b) == b < 128

\* bytes.decode('utf-8'): raises on an undecodable byte.
DecodeStrict(s) ==
  [ok |-> \A i \in 1..Len(s) : IsAsciiByte(s[i]), s |-> s]

\* unicode(bytes), the host's default (ASCII) codec: raises on a byte >= 0x80.
DecodeDefault(s) ==
  [ok |-> \A i \in 1..Len(s) : s[i] < 128, s |-> s]

\* bytes.decode('utf-8', 'ignore'): the undecodable bytes are dropped.
DecodeIgnore(s) == SelectSeq(s, IsAsciiByte)

\* Lines 145-156: the text as a unicode string.
to_unicode(text) ==
  IF text.kind = "unicode" THEN text.s
  ELSE IF DecodeStrict(text.s).ok THEN DecodeStrict(text.s).s
  ELSE IF DecodeDefault(text.s).ok THEN DecodeDefault(text.s).s
  ELSE DecodeIgnore(text.s)

\* ------------------------------------------------------------- count_text
EmptyByExt == [e \in ExtNames |-> EmptyDict]

EmptyCounts ==
  [ total_chars |-> 0, total_cjk |-> 0,
    all_char_counts |-> EmptyDict,
    cjk_char_counts_by_ext |-> EmptyByExt,
    digits_chars |-> EmptyDict,
    letters_chars |-> EmptyDict,
    other_chars |-> EmptyDict ]

\* A slip: the letter/digit/other branch is taken whether or not the
\* character was recorded as CJK.
CountCharNoPriority(acc, item) ==
  LET cp == item.cp
      chstr == item.chstr
      key == << cp, chstr >>
      ext == which_cjk_extension(cp)
      a1 == [acc EXCEPT !.total_chars = @ + 1,
                        !.all_char_counts = DictAdd(@, key, 1)]
      a2 == IF is_cjk_codepoint(cp) /\ ext # ""
            THEN [a1 EXCEPT !.total_cjk = @ + 1,
                            !.cjk_char_counts_by_ext[ext] = DictAdd(@, key, 1)]
            ELSE a1
  IN IF isspace(chstr) THEN acc
     ELSE IF isdigit(chstr) THEN [a2 EXCEPT !.digits_chars = DictAdd(@, key, 1)]
     ELSE IF isalpha(chstr) THEN [a2 EXCEPT !.letters_chars = DictAdd(@, key, 1)]
     ELSE [a2 EXCEPT !.other_chars = DictAdd(@, key, 1)]

\* A slip: whitespace is counted like any other character.
CountCharWithSpace(acc, item) ==
  LET key == << item.cp, item.chstr >> IN
  [acc EXCEPT !.total_chars = @ + 1,
              !.all_char_counts = DictAdd(@, key, 1),
              !.other_chars = DictAdd(@, key, 1)]

\* One iteration of the loop of lines 175-201.
CountChar(acc, item) ==
  LET cp == item.cp
      chstr == item.chstr
      key == << cp, chstr >>
  IN
  IF isspace(chstr) THEN acc
  ELSE
    LET a1 == [acc EXCEPT !.total_chars = @ + 1,
                          !.all_char_counts = DictAdd(@, key, 1)]
        cjk == is_cjk_codepoint(cp)
        ext == IF cjk THEN which_cjk_extension(cp) ELSE ""
        is_cjk == cjk /\ ext # ""
        a2 == IF cjk THEN [a1 EXCEPT !.total_cjk = @ + 1] ELSE a1
        a3 == IF is_cjk
              THEN [a2 EXCEPT !.cjk_char_counts_by_ext[ext] = DictAdd(@, key, 1)]
              ELSE a2
    IN
    IF is_cjk THEN a3
    ELSE IF isdigit(chstr) THEN [a3 EXCEPT !.digits_chars = DictAdd(@, key, 1)]
    ELSE IF isalpha(chstr) THEN [a3 EXCEPT !.letters_chars = DictAdd(@, key, 1)]
    ELSE [a3 EXCEPT !.other_chars = DictAdd(@, key, 1)]

RECURSIVE CountLoop(_, _, _)
CountLoop(acc, chars, i) ==
  IF i > Len(chars) THEN acc
  ELSE CHOOSE out \in { CountLoop(a, chars, i + 1) :
                          a \in { CountChar(acc, chars[i]) } } : TRUE

IsAsciiLetter(u) == (65 <= u /\ u <= 90) \/ (97 <= u /\ u <= 122)

\* The 32 ASCII punctuation characters of the pattern of line 205.
IsHalfwidthPunct(u) ==
  \/ 33 <= u /\ u <= 47
  \/ 58 <= u /\ u <= 64
  \/ 91 <= u /\ u <= 96
  \/ 123 <= u /\ u <= 126

\* The character class of line 206.
FULLWIDTH_PUNCT ==
  { 8212, 8230, 12289, 12290, 12296, 12297, 12298, 12299, 12300, 12301,
    12302, 12303, 12304, 12305, 12308, 12309, 65281, 65282, 65283, 65284,
    65285, 65286, 65287, 65288, 65289, 65290, 65291, 65292, 65293, 65295,
    65306, 65307, 65308, 65309, 65310, 65311, 65312, 65339, 65340, 65341,
    65342, 65343, 65344, 65371, 65372, 65373, 65374, 65377, 65509 }

\* len(re.findall(r'[A-Za-z]+', text)): the maximal runs of ASCII letters.
CountWords(t) ==
  Cardinality({ i \in 1..Len(t) :
                  IsAsciiLetter(t[i]) /\ (i = 1 \/ ~IsAsciiLetter(t[i - 1])) })

CountHalfwidth(t) == Cardinality({ i \in 1..Len(t) : IsHalfwidthPunct(t[i]) })

CountFullwidth(t) == Cardinality({ i \in 1..Len(t) : t[i] \in FULLWIDTH_PUNCT })

\* The text count_text counts: strip_tags, then the conversion to unicode.
counted_text(html_content, is_py3) == to_unicode(strip_tags(html_content, is_py3))

\* The returned mapping: the loop's counts and the three pattern counts.
count_text(html_content, is_py3) ==
  LET t == counted_text(html_content, is_py3) IN
  CountLoop(EmptyCounts, iter_chars(t), 1)
    @@ [ english_words |-> CountWords(t),
         halfwidth_punct |-> CountHalfwidth(t),
         fullwidth_punct |-> CountFullwidth(t) ]

\* ----------------------------------------------------- format_char_counts
\* The sort key of line 253, (-count, codepoint), compared as tuples.
KeyLess(a, b) == (a.n > b.n) \/ (a.n = b.n /\ a.key[1] < b.key[1])

\* x goes before the first element it is less than: elements that compare
\* equal keep their input order (sorted() is stable).
RECURSIVE InsertStable(_, _, _)
InsertStable(s, x, i) ==
  IF i > Len(s) THEN Append(s, x)
  ELSE IF KeyLess(x, s[i])
       THEN SubSeq(s, 1, i - 1) \o << x >> \o SubSeq(s, i, Len(s))
       ELSE InsertStable(s, x, i + 1)

RECURSIVE SortFrom(_, _, _)
SortFrom(done, d, i) ==
  IF i > Len(d) THEN done
  ELSE CHOOSE out \in { SortFrom(s, d, i + 1) :
                          s \in { InsertStable(done, d[i], 1) } } : TRUE

sorted(d) == SortFrom(<< >>, d, 1)

RECURSIVE HexDigits(_)
HexDigits(n) == IF n < 16 THEN << n >> ELSE Append(HexDigits(n \div 16), n % 16)

\* "{0:04X}": the hexadecimal digits of cp, zero-padded to HEX_WIDTH.
FormatHex(cp) ==
  LET h == HexDigits(cp)
      pad == IF Len(h) >= HEX_WIDTH THEN 0 ELSE HEX_WIDTH - Len(h)
  IN [i \in 1..(pad + Len(h)) |-> IF i <= pad THEN 0 ELSE h[i - pad]]

\* The lines of the section: its title line, its totals line and, when the
\* bucket is not empty, a column header line followed by one row per entry.
format_char_counts(title, char_counts) ==
  CHOOSE section \in
    { [ title |-> title,
        total_count |-> SumValues(char_counts),
        unique_count |-> Len(char_counts),
        rows |-> [i \in 1..Len(sorted_chars) |->
                    [ index |-> i,
                      unicode_str |-> FormatHex(sorted_chars[i].key[1]),
                      chstr |-> sorted_chars[i].key[2],
                      count |-> sorted_chars[i].n ]] ] :
      sorted_chars \in { sorted(char_counts) } } : TRUE

\* -------------------------------------------------------- count_html_tags
\* len(soup.find_all(tag)) for the k-th tracked tag.
find_all(s, k) == Cardinality({ i \in 1..Len(s) : s[i] = 0 - k })

ZeroTagCounts == [t \in TagNames |-> 0]

\* tag_fail says where the markup collaborator raises for this document:
\* 0 in BeautifulSoup(...), k in find_all of the k-th tracked tag, NoTagFail
\* nowhere.
NoTagFail == Len(TAGS_TO_COUNT) + 1

\* The loop of lines 235-236 from the k-th tag; an exception leaves it with
\* the counts assigned so far (lines 238-240).
RECURSIVE TagLoop(_, _, _, _)
TagLoop(tag_counts, s, k, tag_fail) ==
  IF k > Len(TAGS_TO_COUNT) THEN tag_counts
  ELSE IF tag_fail = k THEN tag_counts
  ELSE TagLoop([tag_counts EXCEPT ![TAGS_TO_COUNT[k]] = find_all(s, k)], s, k + 1, tag_fail)

count_html_tags(html_content, bs_available, tag_fail) ==
  IF ~bs_available THEN ZeroTagCounts
  ELSE IF tag_fail = 0 THEN ZeroTagCounts
  ELSE TagLoop(ZeroTagCounts, html_content.s, 1, tag_fail)

\* -------------------------------------------------------------------- run
\* soup.get_text(): the text nodes, as a unicode string (the parser decodes
\* a byte string; a byte of the model's alphabet keeps its value).
get_text(data) == Str("unicode", TextNodes(data.s))

\* A slip: a failed extraction leaves nothing to count.
html_for_count_or_nothing(data, bs_available, soup_ok) ==
  IF bs_available
  THEN IF soup_ok THEN get_text(data) ELSE Str("unicode", << >>)
  ELSE data

\* Lines 304-312: the text handed to count_text.
html_for_count(data, bs_available, soup_ok) ==
  IF bs_available
  THEN IF soup_ok THEN get_text(data) ELSE data
  ELSE data

EmptyAgg ==
  [ total_chars |-> 0, total_cjk |-> 0,
    all_char_counts |-> EmptyDict,
    cjk_char_counts_by_ext |-> EmptyByExt,
    digits_chars |-> EmptyDict,
    letters_chars |-> EmptyDict,
    other_chars |-> EmptyDict,
    english_words |-> 0, halfwidth_punct |-> 0, fullwidth_punct |-> 0,
    total_tag_counts |-> ZeroTagCounts,
    file_tag_stats |-> << >> ]

\* A slip: the document's buckets replace the totals instead of adding to them.
MergeOverwrite(g, r) ==
  [g EXCEPT
     !.total_chars = @ + r.total_chars,
     !.total_cjk = @ + r.total_cjk,
     !.english_words = @ + r.english_words,
     !.halfwidth_punct = @ + r.halfwidth_punct,
     !.fullwidth_punct = @ + r.fullwidth_punct,
     !.all_char_counts = IF r.all_char_counts = << >> THEN @ ELSE r.all_char_counts,
     !.cjk_char_counts_by_ext =
        [e \in ExtNames |-> DictMerge(@[e], r.cjk_char_counts_by_ext[e])],
     !.digits_chars = DictMerge(@, r.digits_chars),
     !.letters_chars = DictMerge(@, r.letters_chars),
     !.other_chars = DictMerge(@, r.other_chars)]

\* Lines 317-333: the document's result added to the run's totals.
Merge(g, r) ==
  [g EXCEPT
     !.total_chars = @ + r.total_chars,
     !.total_cjk = @ + r.total_cjk,
     !.english_words = @ + r.english_words,
     !.halfwidth_punct = @ + r.halfwidth_punct,
     !.fullwidth_punct = @ + r.fullwidth_punct,
     !.all_char_counts = DictMerge(@, r.all_char_counts),
     !.cjk_char_counts_by_ext =
        [e \in ExtNames |-> DictMerge(@[e], r.cjk_char_counts_by_ext[e])],
     !.digits_chars = DictMerge(@, r.digits_chars),
     !.letters_chars = DictMerge(@, r.letters_chars),
     !.other_chars = DictMerge(@, r.other_chars)]

\* A slip: the exception of readfile is not caught and ends run.
ReadErrorRaises(g, name) == [ok |-> FALSE, g |-> g]

\* A slip: the unread document is still listed, with no tags.
ReadErrorListed(g, name) ==
  [ok |-> TRUE, g |-> [g EXCEPT !.file_tag_stats = Append(@, << name, ZeroTagCounts >>)]]

\* Lines 292-295: except Exception: continue.  The iteration ends without an
\* exception and the totals are as they were.
OnReadError(g, name) == [ok |-> TRUE, g |-> g]

\* Lines 298-301.
AddTags(g, name, file_tag_counts) ==
  [g EXCEPT
     !.file_tag_stats = Append(@, << name, file_tag_counts >>),
     !.total_tag_counts = [t \in TagNames |-> @[t] + file_tag_counts[t]]]

\* One iteration of the loop of lines 291-333 for document d:
\* [ok |-> the iteration ended without an exception, g |-> the totals].
\* (file_tag_counts and res are bound as set elements so that each is
\* computed once.)
LoopBody(g, d, bs_available, is_py3) ==
  IF ~d.read_ok
  THEN OnReadError(g, d.name)
  ELSE CHOOSE o \in
         { [ok |-> TRUE, g |-> Merge(AddTags(g, d.name, file_tag_counts), r)] :
             file_tag_counts \in { count_html_tags(d.data, bs_available, d.tag_fail) },
             r \in { count_text(html_for_count(d.data, bs_available, d.soup_ok), is_py3) } } :
         TRUE

\* ------------------------------------------------------------- the report
RECURSIVE CjkSections(_, _)
CjkSections(by_ext, k) ==
  IF k > Len(CJK_EXTENSIONS) THEN << >>
  ELSE LET name == CJK_EXTENSIONS[k].name IN
       (IF by_ext[name] # << >>
        THEN << format_char_counts(name, by_ext[name]) >>
        ELSE << >>) \o CjkSections(by_ext, k + 1)

RECURSIVE CjkUnique(_, _)
CjkUnique(by_ext, k) ==
  IF k > Len(CJK_EXTENSIONS) THEN 0
  ELSE Len(by_ext[CJK_EXTENSIONS[k].name]) + CjkUnique(by_ext, k + 1)

RECURSIVE TagLines(_, _)
TagLines(tag_counts, k) ==
  IF k > Len(TAGS_TO_COUNT) THEN << >>
  ELSE (IF tag_counts[TAGS_TO_COUNT[k]] > 0
        THEN << << TAGS_TO_COUNT[k], tag_counts[TAGS_TO_COUNT[k]] >> >>
        ELSE << >>) \o TagLines(tag_counts, k + 1)

RECURSIVE FileTagLines(_, _)
FileTagLines(stats, i) ==
  IF i > Len(stats) THEN << >>
  ELSE (IF \E t \in TagNames : stats[i][2][t] > 0
        THEN << [filename |-> stats[i][1], tags |-> TagLines(stats[i][2], 1)] >>
        ELSE << >>) \o FileTagLines(stats, i + 1)

\* Lines 337-377: the report, section by section.
BuildReport(g) ==
  [ overview |-> << g.total_chars, g.english_words, g.halfwidth_punct, g.fullwidth_punct >>,
    all_chars |-> format_char_counts("all", g.all_char_counts),
    cjk_totals |-> << g.total_cjk, CjkUnique(g.cjk_char_counts_by_ext, 1) >>,
    cjk |-> IF g.total_cjk > 0 THEN CjkSections(g.cjk_char_counts_by_ext, 1) ELSE << >>,
    digits |-> format_char_counts("digits", g.digits_chars),
    letters |-> format_char_counts("letters", g.letters_chars),
    other |-> format_char_counts("other", g.other_chars),
    tags |-> FileTagLines(g.file_tag_stats, 1) ]

NoReport == << >>

\* ------------------------------------------------------------- the state
VARIABLES
  py3,            \* the host is Python 3 (else Python 2)
  BeautifulSoup,  \* the markup parser was imported (lines 24-31); FALSE is None
  n_docs,         \* the number of documents container.text_iter() yields
  visited,        \* the documents the loop has taken from text_iter(), in order
  pc,             \* where run (or the text-level check) stands
  ret,            \* run's return value, 0 before it returns
  agg,            \* run's running totals (the locals of lines 273-288)
  msg,            \* the report run built
  text,           \* a text given to iter_chars, count_text and format_char_counts
  chars,          \* what iter_chars yielded for text
  res,            \* what count_text returned for text
  lines           \* what format_char_counts returned for res's "all" bucket

vars == << py3, BeautifulSoup, n_docs, visited, pc, ret, agg, msg, text, chars, res, lines >>

runVars == << n_docs, visited, ret, agg, msg >>

textVars == << text, chars, res, lines >>

\* ----------------------------------------------------------------- inputs
SeqsUpTo(S, k) == UNION { [1..j -> S] : j \in 0..k }

\* space, '!', '1', 'a', U+4E00, a high and a low surrogate, U+20000
TextUnits == { 32, 33, 49, 97, 19968, 55360, 56320, 131072 }

Texts == SeqsUpTo(TextUnits, MaxLen)

Doc(name, data, read_ok, soup_ok, tag_fail) ==
  [name |-> name, data |-> data, read_ok |-> read_ok, soup_ok |-> soup_ok,
   tag_fail |-> tag_fail]

\* A document whose readfile raises has no content.
Unread(name) == Doc(name, Str("unicode", << >>), FALSE, TRUE, NoTagFail)

\* Whether extraction can fail is only a question when the parser is there.
SoupOutcomes == IF BeautifulSoup THEN BOOLEAN ELSE { TRUE }

\* Documents for the aggregation: a root element and a short text of a space,
\* a letter and a CJK ideograph, read and parsed without a failure.
AggUnits == { 32, 97, 19968 }

AggDocs(name) ==
  { Doc(name, Str("unicode", << OTHER_TAG >> \o t), TRUE, TRUE, NoTagFail) :
      t \in SeqsUpTo(AggUnits, MaxDocLen) }

\* Documents for the tag counter: tracked elements and a letter, and every
\* place where the markup collaborator can raise.
TagUnits == { 0 - k : k \in 1..Len(TAGS_TO_COUNT) } \cup { 97 }

TagDocs(name) ==
  { Doc(name, Str("unicode", t), TRUE, TRUE, tf) :
      t \in SeqsUpTo(TagUnits, MaxDocLen), tf \in 0..NoTagFail }

\* Documents for the failure modes: text and byte strings (one with a byte
\* that does not decode), each with every combination of failures.
FailData ==
  { Str("unicode", << OTHER_TAG, 97 >>),
    Str("bytes", << OTHER_TAG, 97 >>),
    Str("bytes", << OTHER_TAG, 255, 97 >>) }

FailDocs(name) ==
  { Doc(name, data, TRUE, so, tf) :
      data \in FailData, so \in SoupOutcomes, tf \in { 0, 1, NoTagFail } }

\* ---------------------------------------------------------------- actions
NoResult == << >>

Init ==
  /\ py3 \in BOOLEAN
  /\ BeautifulSoup \in BOOLEAN
  /\ n_docs \in 0..MaxDocs
  /\ visited = << >>
  /\ pc = "loop"
  /\ ret = 0
  /\ agg = EmptyAgg
  /\ msg = NoReport
  /\ text = << >>
  /\ chars = << >>
  /\ res = NoResult
  /\ lines = NoResult

\* The loop of run takes the next document d from text_iter().
RunStep(d) ==
  /\ pc = "loop"
  /\ Len(visited) < n_docs
  /\ visited' = Append(visited, d)
  /\ \E o \in { LoopBody(agg, d, BeautifulSoup, py3) } :
       /\ agg' = o.g
       /\ pc' = IF o.ok THEN "loop" ELSE "raised"
  /\ UNCHANGED << py3, BeautifulSoup, n_docs, ret, msg, textVars >>

\* text_iter() is exhausted: run builds the report, prints it and returns 1.
Report ==
  /\ pc = "loop"
  /\ Len(visited) = n_docs
  /\ msg' = BuildReport(agg)
  /\ ret' = RUN_SUCCESS
  /\ pc' = "done"
  /\ UNCHANGED << py3, BeautifulSoup, n_docs, visited, agg, textVars >>

NextName == Len(visited) + 1

\* The iteration for a document whose readfile raises (lines 292-295).
SkipStep == RunStep(Unread(NextName))

Next ==
  \/ SkipStep
  \/ \E d \in AggDocs(NextName) : RunStep(d)
  \/ Report

Spec == Init /\ [][Next]_vars

NextTags ==
  \/ \E d \in TagDocs(NextName) : RunStep(d)
  \/ Report

SpecTags == Init /\ [][NextTags]_vars

NextFail ==
  \/ SkipStep
  \/ \E d \in FailDocs(NextName) : RunStep(d)
  \/ Report

\* run is one sequential call: it keeps running until it returns.
FairSpec == Init /\ [][NextFail]_vars /\ WF_vars(NextFail)

\* The text-level functions applied to one text.
InitText ==
  /\ py3 \in BOOLEAN
  /\ BeautifulSoup = TRUE
  /\ n_docs = 0
  /\ visited = << >>
  /\ pc = "text"
  /\ ret = 0
  /\ agg = EmptyAgg
  /\ msg = NoReport
  /\ text \in Texts
  /\ chars = << >>
  /\ res = NoResult
  /\ lines = NoResult

Decode ==
  /\ pc = "text"
  /\ chars' = iter_chars(text)
  /\ pc' = "decoded"
  /\ UNCHANGED << py3, BeautifulSoup, runVars, text, res, lines >>

Count ==
  /\ pc = "decoded"
  /\ res' = count_text(Str("unicode", text), py3)
  /\ pc' = "counted"
  /\ UNCHANGED << py3, BeautifulSoup, runVars, text, chars, lines >>

Format ==
  /\ pc = "counted"
  /\ lines' = format_char_counts("all", res.all_char_counts)
  /\ pc' = "formatted"
  /\ UNCHANGED << py3, BeautifulSoup, runVars, text, chars, res >>

NextText == Decode \/ Count \/ Format

SpecText == InitText /\ [][NextText]_vars

\* ------------------------------------------------ run over a document list
\* The totals after the loop of run has gone over the documents ds, from
\* empty totals.
RECURSIVE RunFrom(_, _, _, _, _)
RunFrom(g, ds, i, bs_available, is_py3) ==
  IF i > Len(ds) THEN g
  ELSE CHOOSE out \in { RunFrom(o.g, ds, i + 1, bs_available, is_py3) :
                          o \in { LoopBody(g, ds[i], bs_available, is_py3) } } : TRUE

RunOver(ds) == RunFrom(EmptyAgg, ds, 1, BeautifulSoup, py3)

\* ------------------------------------------------------ reading the state
Keys(d) == { d[i].key : i \in 1..Len(d) }

RECURSIVE CountFrom(_, _, _)
CountFrom(d, key, i) ==
  IF i > Len(d) THEN 0
  ELSE (IF d[i].key = key THEN d[i].n ELSE 0) + CountFrom(d, key, i + 1)

\* The count a bucket holds for key (0 when it does not hold the key).
CountOf(d, key) == CountFrom(d, key, 1)

\* A bucket's contents: its keys, each with its count, whatever the order.
Contents(d) == [k \in Keys(d) |-> CountOf(d, k)]

\* The buckets' contents and the scalar totals of run's totals g.
Totals(g) ==
  [ total_chars |-> g.total_chars, total_cjk |-> g.total_cjk,
    english_words |-> g.english_words,
    halfwidth_punct |-> g.halfwidth_punct,
    fullwidth_punct |-> g.fullwidth_punct,
    all_char_counts |-> Contents(g.all_char_counts),
    cjk_char_counts_by_ext |-> [e \in ExtNames |-> Contents(g.cjk_char_counts_by_ext[e])],
    digits_chars |-> Contents(g.digits_chars),
    letters_chars |-> Contents(g.letters_chars),
    other_chars |-> Contents(g.other_chars) ]

Perms(s) ==
  LET n == Len(s)
      bij == { f \in [1..n -> 1..n] : \A a, b \in 1..n : a # b => f[a] # f[b] }
  IN { [i \in 1..n |-> s[f[i]]] : f \in bij }

NonSpace(cs) == Cardinality({ j \in 1..Len(cs) : ~isspace(cs[j].chstr) })

\* The count key holds over all the CJK block buckets.
RECURSIVE CjkCountFrom(_, _, _)
CjkCountFrom(by_ext, key, k) ==
  IF k > Len(CJK_EXTENSIONS) THEN 0
  ELSE CountOf(by_ext[CJK_EXTENSIONS[k].name], key) + CjkCountFrom(by_ext, key, k + 1)

CjkCount(by_ext, key) == CjkCountFrom(by_ext, key, 1)

RECURSIVE CjkSumFrom(_, _)
CjkSumFrom(by_ext, k) ==
  IF k > Len(CJK_EXTENSIONS) THEN 0
  ELSE SumValues(by_ext[CJK_EXTENSIONS[k].name]) + CjkSumFrom(by_ext, k + 1)

Counted == pc \in { "counted", "formatted" }

\* ---------------------------------------------------------------------- C1
\* C1: every non-whitespace Character Unit of the text is counted in exactly
\* one of the four groups {a CJK block bucket, digits, letters, other}: for
\* every key of the "all" bucket the four groups' counts add up to its count
\* and only one group holds it, the groups hold no other key, together they
\* hold as many occurrences as iter_chars yielded non-whitespace units, and a
\* codepoint inside a block's range is held by that block's bucket alone.
C1_ExactlyOneGroup ==
  Counted =>
    LET grp(k) == << CjkCount(res.cjk_char_counts_by_ext, k),
                     CountOf(res.digits_chars, k),
                     CountOf(res.letters_chars, k),
                     CountOf(res.other_chars, k) >>
    IN
    /\ \A k \in Keys(res.all_char_counts) :
         /\ grp(k)[1] + grp(k)[2] + grp(k)[3] + grp(k)[4] = CountOf(res.all_char_counts, k)
         /\ Cardinality({ x \in 1..4 : grp(k)[x] > 0 }) = 1
         /\ Cardinality({ e \in ExtNames : HasKey(res.cjk_char_counts_by_ext[e], k) }) <= 1
         /\ \A b \in 1..Len(CJK_EXTENSIONS) :
              InRanges(k[1], CJK_EXTENSIONS[b].ranges) =>
                CountOf(res.cjk_char_counts_by_ext[CJK_EXTENSIONS[b].name], k)
                  = CountOf(res.all_char_counts, k)
    /\ Keys(res.digits_chars) \cup Keys(res.letters_chars) \cup Keys(res.other_chars)
         \cup UNION { Keys(res.cjk_char_counts_by_ext[e]) : e \in ExtNames }
         \subseteq Keys(res.all_char_counts)
    /\ CjkSumFrom(res.cjk_char_counts_by_ext, 1) + SumValues(res.digits_chars)
         + SumValues(res.letters_chars) + SumValues(res.other_chars)
         = NonSpace(chars)

\* A text with a CJK ideograph the host calls alphabetic, a letter, a digit
\* and another character has been counted.
C1_Witness ==
  /\ pc = "counted"
  /\ res.cjk_char_counts_by_ext["Basic"] # << >>
  /\ isalpha(res.cjk_char_counts_by_ext["Basic"][1].key[2])
  /\ res.letters_chars # << >>
  /\ res.digits_chars # << >> \/ res.other_chars # << >>

\* ---------------------------------------------------------------------- C3
\* The 1-based place in the text of the first unit of the j-th item.
RECURSIVE PlaceOf(_, _)
PlaceOf(cs, j) == IF j = 1 THEN 1 ELSE PlaceOf(cs, j - 1) + Len(cs[j - 1].chstr)

RECURSIVE Joined(_, _)
Joined(cs, j) == IF j > Len(cs) THEN << >> ELSE cs[j].chstr \o Joined(cs, j + 1)

\* C3: iter_chars yields one Character Unit, with the combined codepoint and
\* a two-unit grapheme, for each high surrogate immediately followed by a low
\* surrogate, and one Character Unit carrying its own value for every other
\* unit (a lone surrogate, a trailing high surrogate); the graphemes
\* concatenate back to the text.
C3_Decoding ==
  pc # "text" =>
    /\ Joined(chars, 1) = text
    /\ \A j \in 1..Len(chars) :
         \/ /\ Len(chars[j].chstr) = 1
            /\ chars[j].cp = chars[j].chstr[1]
         \/ /\ Len(chars[j].chstr) = 2
            /\ 55296 <= chars[j].chstr[1] /\ chars[j].chstr[1] <= 56319
            /\ 56320 <= chars[j].chstr[2] /\ chars[j].chstr[2] <= 57343
            /\ chars[j].cp = (chars[j].chstr[1] - 55296) * 1024
                               + (chars[j].chstr[2] - 56320) + 65536
    /\ \A i \in 1..(Len(text) - 1) :
         ( /\ 55296 <= text[i] /\ text[i] <= 56319
           /\ 56320 <= text[i + 1] /\ text[i + 1] <= 57343 )
         => \E j \in 1..Len(chars) : PlaceOf(chars, j) = i /\ Len(chars[j].chstr) = 2

\* A text with a surrogate pair and a high surrogate as its last unit has
\* been decoded.
C3_Witness ==
  /\ pc = "decoded"
  /\ Len(text) = 3
  /\ Len(chars) = 2
  /\ chars[1].cp = 131072 /\ Len(chars[1].chstr) = 2
  /\ chars[2].cp = 55360

\* --------------------------------------------------------------------- C10
Buckets(r) ==
  { r.all_char_counts, r.digits_chars, r.letters_chars, r.other_chars }
  \cup { r.cjk_char_counts_by_ext[e] : e \in ExtNames }

\* C10: in every bucket no two distinct keys share a codepoint, so that the
\* number of entries format_char_counts reports as unique_count is the number
\* of distinct codepoints of the bucket.
C10_OneKeyPerCodepoint ==
  /\ Counted =>
       \A d \in Buckets(res) : \A k1, k2 \in Keys(d) : k1[1] = k2[1] => k1 = k2
  /\ pc = "formatted" =>
       lines.unique_count = Cardinality({ k[1] : k \in Keys(res.all_char_counts) })

\* ---------------------------------------------------------------------- C6
\* The rows are in non-increasing order of count, equal counts in ascending
\* order of codepoint, and each row's index is its place.
Ordered(rows, d) ==
  /\ Len(rows) = Len(d)
  /\ \A i \in 1..Len(rows) : rows[i].index = i
  /\ \A i \in 1..(Len(rows) - 1) :
       \/ rows[i].count > rows[i + 1].count
       \/ /\ rows[i].count = rows[i + 1].count
          /\ \E k1, k2 \in Keys(d) :
               /\ FormatHex(k1[1]) = rows[i].unicode_str /\ k1[2] = rows[i].chstr
               /\ FormatHex(k2[1]) = rows[i + 1].unicode_str /\ k2[2] = rows[i + 1].chstr
               /\ k1[1] <= k2[1]

\* The ordering alone (the part of C6 the code keeps for every bucket).
C6_OrderingOnly ==
  pc = "formatted" => Ordered(lines.rows, res.all_char_counts)

\* C6: format_char_counts lists a bucket's entries by descending count and,
\* among equal counts, ascending codepoint, numbered from 1 in that order, so
\* that two buckets with identical contents (here: the buckets of the text
\* and of any reordering of its units) get the same listing.
C6_Listing ==
  pc = "formatted" =>
    /\ Ordered(lines.rows, res.all_char_counts)
    /\ \A t2 \in Perms(text) :
         LET d2 == count_text(Str("unicode", t2), py3).all_char_counts IN
         Contents(d2) = Contents(res.all_char_counts)
           => format_char_counts("all", d2) = lines

\* ---------------------------------------------------------------------- C2
\* The text count_text counted for a document that was read.
CountedTextOf(d) ==
  counted_text(html_for_count(d.data, BeautifulSoup, d.soup_ok), py3)

RECURSIVE NonSpaceOver(_, _)
NonSpaceOver(ds, i) ==
  IF i > Len(ds) THEN 0
  ELSE (IF ds[i].read_ok THEN NonSpace(iter_chars(CountedTextOf(ds[i]))) ELSE 0)
       + NonSpaceOver(ds, i + 1)

\* C2: after any sequence of documents total_chars is the sum of the counts
\* of the "all" bucket and the number of non-whitespace Character Units
\* iter_chars yields over the counted text of the documents that were read;
\* no whitespace unit is in the bucket, and the report carries the same total.
C2_TotalChars ==
  /\ agg.total_chars = SumValues(agg.all_char_counts)
  /\ agg.total_chars = NonSpaceOver(visited, 1)
  /\ \A k \in Keys(agg.all_char_counts) : ~isspace(k[2])
  /\ pc = "done" =>
       /\ msg.overview[1] = agg.total_chars
       /\ msg.all_chars.total_count = agg.total_chars

\* run has returned after two documents that were read, one holding a space
\* and one a character that is counted.
C2_Witness ==
  /\ pc = "done"
  /\ Len(visited) = 2
  /\ \E i, j \in 1..2 :
       /\ visited[i].read_ok /\ \E x \in 1..Len(visited[i].data.s) : visited[i].data.s[x] = 32
       /\ visited[j].read_ok /\ \E x \in 1..Len(visited[j].data.s) : visited[j].data.s[x] = 97
  /\ agg.total_chars >= 1

\* ---------------------------------------------------------------------- C4
\* C4: the documents taken in any other order give the same contents of
\* every bucket and the same scalar totals.
C4_OrderIndependent ==
  \A p \in Perms(visited) : Totals(RunOver(p)) = Totals(agg)

\* Two documents with different characters have been merged.
C4_Witness ==
  /\ Len(visited) = 2
  /\ visited[1].read_ok /\ visited[2].read_ok
  /\ visited[1].data # visited[2].data
  /\ Len(agg.all_char_counts) = 2
  /\ agg.total_cjk = 1

\* ---------------------------------------------------------------------- C5
WasRead(d) == d.read_ok

\* C5: the totals, the tag totals, the per-document tag listing and the
\* report are those of the run over the same documents without the ones
\* whose readfile failed.
C5_ReadFailureSkipped ==
  /\ agg = RunOver(SelectSeq(visited, WasRead))
  /\ pc = "done" => msg = BuildReport(RunOver(SelectSeq(visited, WasRead)))

\* run has returned after a document that could not be read and one that
\* was read and counted.
C5_Witness ==
  /\ pc = "done"
  /\ Len(visited) = 2
  /\ ~visited[1].read_ok
  /\ visited[2].read_ok
  /\ agg.total_chars = 1
  /\ Len(agg.file_tag_stats) = 1

TagCountFailed(d) == d.read_ok /\ (~BeautifulSoup \/ d.tag_fail # NoTagFail)

\* C8: a document for which the markup parser is unavailable or raises, in
\* the parse or in the lookup of any tracked tag, gets count 0 for every
\* tracked tag and leaves the tag totals as they are.  (Every document of
\* this specification is read, so the i-th listing entry is the i-th
\* document's.)
C8_FailedTagCountIsZero ==
  \A i \in 1..Len(visited) :
    (visited[i].read_ok /\ i <= Len(agg.file_tag_stats) /\ TagCountFailed(visited[i]))
    => /\ agg.file_tag_stats[i][2] = ZeroTagCounts
       /\ agg.total_tag_counts =
            RunOver(SubSeq(visited, 1, i - 1) \o SubSeq(visited, i + 1, Len(visited))).total_tag_counts

\* ---------------------------------------------------------------------- C9
ExtractionFailed(d) == d.read_ok /\ BeautifulSoup /\ ~d.soup_ok

ExtractionWorked(d) == ~ExtractionFailed(d)

\* C9 as claimed: a document whose extraction failed adds nothing to any
\* bucket or scalar: the totals are those of the run without it.
C9_FailedExtractionAddsNothing ==
  /\ Totals(agg) = Totals(RunOver(SelectSeq(visited, ExtractionWorked)))
  /\ pc # "raised"

\* The totals of the documents ds when each read document adds
\* count_text of: its raw content if its extraction failed, and otherwise
\* the text run hands to count_text.
RECURSIVE RawFallbackFrom(_, _, _)
RawFallbackFrom(g, ds, i) ==
  IF i > Len(ds) THEN g
  ELSE LET d == ds[i]
           r == IF ExtractionFailed(d)
                THEN count_text(d.data, py3)
                ELSE count_text(html_for_count(d.data, BeautifulSoup, TRUE), py3)
       IN RawFallbackFrom(IF d.read_ok THEN Merge(g, r) ELSE g, ds, i + 1)

\* C9, amended: a document whose extraction failed adds what count_text
\* counts in its raw content, and the run goes on.
C9_FailedExtractionCountsRaw ==
  /\ Totals(agg) = Totals(RawFallbackFrom(EmptyAgg, visited, 1))
  /\ pc # "raised"

\* run has returned after a document with a letter whose extraction failed:
\* the letter is counted.
C9_Witness ==
  /\ pc = "done"
  /\ Len(visited) = 1
  /\ ExtractionFailed(visited[1])
  /\ visited[1].data.s = << OTHER_TAG, 97 >>
  /\ agg.total_chars = 1
  /\ agg.english_words = 1

====
